---- MODULE Spec2Model ----
(***************************************************************************)
(* EmoGo public data backend (src/main.py): a FastAPI service with a       *)
(* process-wide MongoDB handle (client, db), a startup and a shutdown hook *)
(* and three read endpoints: GET /, GET /data-download (HTML page of the   *)
(* 10 most recent records) and GET /download-csv (export of all records).  *)
(*                                                                         *)
(* Text is modelled as a sequence of one-character strings, so that the    *)
(* timestamp parser and formatter work on characters as strptime and       *)
(* strftime do.  A document field is a tagged value [t, n, s].             *)
(***************************************************************************)
EXTENDS Integers, Sequences, FiniteSets, TLC

VARIABLES
    client,      \* global `client`: "None" or "Client"
    db,          \* global `db`: "None" or "Db"
    closed,      \* client.close() has been called on the client object
    startupPc,   \* position of startup_db_client: "init", "pinging", "done"
    shutdownPc,  \* position of shutdown_db_client: "idle", "done"
    store,       \* documents of the collection `datacsv` (owned by MongoDB)
    storeUp,     \* the MongoDB server answers commands
    faulted,     \* history: some request has already failed on a store error
    padsYear,    \* platform: strftime('%Y') zero-pads years below 1000
    req,         \* the requests in flight, one record per slot
    buf,         \* the handlers' local buffers (data_items / output)
    fmtIn,       \* formatter harness: the timestamp text given
    fmtOut,      \* formatter harness: what the two renderers made of it
    sentIn,      \* resolver harness: the sentiment code given
    sentOut      \* resolver harness: what the two renderers made of it

vars == <<client, db, closed, startupPc, shutdownPc, store, storeUp, faulted,
          padsYear, req, buf, fmtIn, fmtOut, sentIn, sentOut>>

-----------------------------------------------------------------------------
(* Characters and numbers                                                  *)

DigitChars == <<"0", "1", "2", "3", "4", "5", "6", "7", "8", "9">>

Digits == {DigitChars[i] : i \in 1..Len(DigitChars)}

\* Code points of the characters the model uses (string order is byte order).
Ord(c) ==
    CASE c = " " -> 32
      [] c = "-" -> 45
      [] c = "/" -> 47
      [] c = "0" -> 48 [] c = "1" -> 49 [] c = "2" -> 50 [] c = "3" -> 51
      [] c = "4" -> 52 [] c = "5" -> 53 [] c = "6" -> 54 [] c = "7" -> 55
      [] c = "8" -> 56 [] c = "9" -> 57
      [] c = ":" -> 58
      [] c = "T" -> 84
      [] OTHER -> 120

DigitVal(c) == Ord(c) - 48

RECURSIVE ToInt(_)
\* int(text) for a text of digits, a leading blank skipped as int() does.
ToInt(s) ==
    IF s = <<>> THEN 0
    ELSE IF s[Len(s)] = " " THEN 0
    ELSE 10 * ToInt(SubSeq(s, 1, Len(s) - 1)) + DigitVal(s[Len(s)])

Pad2(n) == <<DigitChars[(n \div 10) + 1], DigitChars[(n % 10) + 1]>>

Pad4(n) == Pad2(n \div 100) \o Pad2(n % 100)

RECURSIVE NoPad(_)
NoPad(n) == IF n < 10 THEN <<DigitChars[n + 1]>>
            ELSE NoPad(n \div 10) \o <<DigitChars[(n % 10) + 1]>>

-----------------------------------------------------------------------------
(* datetime.strptime(text, '%Y-%m-%d%H:%M:%S')                              *)

\* The directives and literals of the format string, in order.
TimestampFormat == <<"Y", "-", "m", "-", "d", "H", ":", "M", ":", "S">>

IsDigitAt(s, i) == i >= 1 /\ i <= Len(s) /\ s[i] \in Digits

InRange(c, lo, hi) == c \in Digits /\ DigitVal(c) >= lo /\ DigitVal(c) <= hi

\* The two-character alternatives of a directive's regular expression.
TwoOk(f, a, b) ==
    CASE f = "m" -> (a = "1" /\ InRange(b, 0, 2)) \/ (a = "0" /\ InRange(b, 1, 9))
      [] f = "d" -> \/ (a = "3" /\ InRange(b, 0, 1))
                    \/ (InRange(a, 1, 2) /\ b \in Digits)
                    \/ (a = "0" /\ InRange(b, 1, 9))
                    \/ (a = " " /\ InRange(b, 1, 9))
      [] f = "H" -> (a = "2" /\ InRange(b, 0, 3)) \/ (InRange(a, 0, 1) /\ b \in Digits)
      [] f = "M" -> InRange(a, 0, 5) /\ b \in Digits
      [] f = "S" -> (a = "6" /\ InRange(b, 0, 1)) \/ (InRange(a, 0, 5) /\ b \in Digits)
      [] OTHER -> FALSE

\* The one-character alternative of a directive's regular expression.
OneOk(f, a) ==
    CASE f \in {"m", "d"} -> InRange(a, 1, 9)
      [] f \in {"H", "M", "S"} -> a \in Digits
      [] OTHER -> FALSE

NoMatch == [ok |-> FALSE, end |-> 0, vals |-> <<>>]

\* The element of a one-element set: Only({F(x) : x \in {e}}) is F(e) with e
\* evaluated once.
Only(S) == CHOOSE x \in S : TRUE

RECURSIVE Match(_, _, _, _, _)
RECURSIVE Backtrack(_, _)
\* re.match of the format's pattern from position i, element k, with the
\* values read so far: the first match in the alternatives' order.  alts holds
\* the places to go back to, where a one-character alternative is untried.
Match(s, i, k, vals, alts) ==
    IF k > Len(TimestampFormat) THEN [ok |-> TRUE, end |-> i, vals |-> vals]
    ELSE LET f == TimestampFormat[k] IN
      IF f \in {"-", ":"} THEN
          IF i <= Len(s) /\ s[i] = f THEN Match(s, i + 1, k + 1, vals, alts)
          ELSE Backtrack(s, alts)
      ELSE IF f = "Y" THEN
          IF \A j \in i..(i + 3) : IsDigitAt(s, j)
          THEN Match(s, i + 4, k + 1, Append(vals, ToInt(SubSeq(s, i, i + 3))), alts)
          ELSE Backtrack(s, alts)
      ELSE IF i + 1 <= Len(s) /\ TwoOk(f, s[i], s[i + 1]) THEN
          Match(s, i + 2, k + 1, Append(vals, ToInt(SubSeq(s, i, i + 1))),
                (IF OneOk(f, s[i]) THEN <<[i |-> i, k |-> k, vals |-> vals]>> ELSE <<>>)
                   \o alts)
      ELSE IF i <= Len(s) /\ OneOk(f, s[i]) THEN
          Match(s, i + 1, k + 1, Append(vals, DigitVal(s[i])), alts)
      ELSE Backtrack(s, alts)

Backtrack(s, alts) ==
    IF alts = <<>> THEN NoMatch
    ELSE Only({Match(s, a.i + 1, a.k + 1, Append(a.vals, DigitVal(s[a.i])), Tail(alts)) :
                  a \in {alts[1]}})

IsLeap(y) == (y % 4 = 0 /\ y % 100 # 0) \/ y % 400 = 0

DaysInMonth(y, m) ==
    IF m = 2 THEN (IF IsLeap(y) THEN 29 ELSE 28)
    ELSE IF m \in {4, 6, 9, 11} THEN 30 ELSE 31

ValueError == [ok |-> FALSE, Y |-> 0, m |-> 0, d |-> 0, H |-> 0, M |-> 0, S |-> 0]

\* The datetime of the values matched, or ValueError: nothing may remain
\* unconverted, and the fields must make a datetime (year 1..9999, a day of
\* the month, second below 60).
FromMatch(s, r) ==
    IF ~r.ok \/ r.end # Len(s) + 1 THEN ValueError
    ELSE IF r.vals[1] < 1 \/ r.vals[3] > DaysInMonth(r.vals[1], r.vals[2])
            \/ r.vals[6] > 59
    THEN ValueError
    ELSE [ok |-> TRUE, Y |-> r.vals[1], m |-> r.vals[2], d |-> r.vals[3],
          H |-> r.vals[4], M |-> r.vals[5], S |-> r.vals[6]]

\* datetime.strptime(s, '%Y-%m-%d%H:%M:%S')
Strptime(s) == Only({FromMatch(s, r) : r \in {Match(s, 1, 1, <<>>, <<>>)}})

\* dt.strftime('%Y/%m/%d %H:%M:%S'); pad tells whether the C library pads %Y.
Strftime(dt, pad) ==
    (IF pad THEN Pad4(dt.Y) ELSE NoPad(dt.Y)) \o <<"/">> \o Pad2(dt.m) \o <<"/">>
      \o Pad2(dt.d) \o <<" ">> \o Pad2(dt.H) \o <<":">> \o Pad2(dt.M)
      \o <<":">> \o Pad2(dt.S)

\* Stands for the suffix " (格式錯誤)" the page appends to an unparsable text.
FormatErrorMarker == <<" ", "(", "format error", ")">>

\* data_download_page, step 3 of the row: the text is a str (validated).
FormatTimestampHtml(s, pad) ==
    Only({IF dt.ok THEN Strftime(dt, pad) ELSE s \o FormatErrorMarker :
             dt \in {Strptime(s)}})

\* A formatter that marks an unparsable text in the export as the page does.
FormatTimestampCsv_marked(s, pad) ==
    Only({IF dt.ok THEN Strftime(dt, pad) ELSE s \o FormatErrorMarker :
             dt \in {Strptime(s)}})

\* download_csv, step 2 of the row, for a str.
FormatTimestampCsv(s, pad) ==
    Only({IF dt.ok THEN Strftime(dt, pad) ELSE s : dt \in {Strptime(s)}})

-----------------------------------------------------------------------------
(* Sentiment lexicon and its two lookups                                   *)

SENTIMENT_MAPPING ==
    [c \in 1..5 |->
        CASE c = 1 -> <<"Bad", "text-red-600">>
          [] c = 2 -> <<"Poor", "text-orange-600">>
          [] c = 3 -> <<"Average", "text-yellow-600">>
          [] c = 4 -> <<"Good", "text-green-300">>
          [] OTHER -> <<"Happy", "text-green-600">>]

\* The page's default pair; its label is the bilingual "未知/Unknown", whose
\* first two characters are written here in pinyin.
HtmlUnknown == <<"WeiZhi/Unknown", "text-gray-400">>

\* The export's default pair.
CsvUnknown == <<"Unknown", "">>

\* SENTIMENT_MAPPING.get(item.sentiment, ...) in data_download_page.
ResolveHtml(code) ==
    IF code \in DOMAIN SENTIMENT_MAPPING THEN SENTIMENT_MAPPING[code] ELSE HtmlUnknown

\* A lookup that falls back on the middle entry of the lexicon.
ResolveCsv_middle(code) ==
    IF code \in DOMAIN SENTIMENT_MAPPING THEN SENTIMENT_MAPPING[code]
    ELSE SENTIMENT_MAPPING[3]

\* SENTIMENT_MAPPING.get(code, ...) in download_csv, for an integer code.
ResolveCsv(code) ==
    IF code \in DOMAIN SENTIMENT_MAPPING THEN SENTIMENT_MAPPING[code] ELSE CsvUnknown

-----------------------------------------------------------------------------
(* Documents: a field is a tagged value (type t, number n, text s);        *)
(* floats are held in millionths                                           *)

Num(n) == [t |-> "int", n |-> n, s |-> <<>>]

Flt(micro) == [t |-> "float", n |-> micro, s |-> <<>>]

Str(s) == [t |-> "str", n |-> 0, s |-> s]

Arr == [t |-> "array", n |-> 0, s |-> <<>>]

Absent == [t |-> "absent", n |-> 0, s |-> <<>>]

Micro == 1000000

NA == Str(<<"N", "/", "A">>)

\* doc.get(field, default)
Get(val, default) == IF val.t = "absent" THEN default ELSE val

IsNumeral(s) == s # <<>> /\ \A i \in 1..Len(s) : s[i] \in Digits

Invalid == [ok |-> FALSE, v |-> 0]

\* pydantic's int: an int, a float without fraction, a numeral.
CoerceInt(val) ==
    CASE val.t = "int" -> [ok |-> TRUE, v |-> val.n]
      [] val.t = "float" -> IF val.n % Micro = 0
                            THEN [ok |-> TRUE, v |-> val.n \div Micro]
                            ELSE Invalid
      [] val.t = "str" -> IF IsNumeral(val.s) THEN [ok |-> TRUE, v |-> ToInt(val.s)]
                          ELSE Invalid
      [] OTHER -> Invalid

\* pydantic's float (in millionths): a float, an int, a numeral.
CoerceFloat(val) ==
    CASE val.t = "float" -> [ok |-> TRUE, v |-> val.n]
      [] val.t = "int" -> [ok |-> TRUE, v |-> val.n * Micro]
      [] val.t = "str" -> IF IsNumeral(val.s)
                          THEN [ok |-> TRUE, v |-> ToInt(val.s) * Micro]
                          ELSE Invalid
      [] OTHER -> Invalid

\* pydantic's str: a str only.
IsStr(val) == val.t = "str"

\* MongoDBItem(**doc): every field but id is required; extra fields ignored.
MongoDBItem(doc) ==
    LET u == CoerceInt(doc.user_id)
        s == CoerceInt(doc.sentiment)
        la == CoerceFloat(doc.lat)
        ln == CoerceFloat(doc.lng)
    IN IF u.ok /\ s.ok /\ la.ok /\ ln.ok /\ IsStr(doc.timestamp) /\ IsStr(doc.vlog_path)
       THEN [ok |-> TRUE, user_id |-> u.v, timestamp |-> doc.timestamp.s,
             sentiment |-> s.v, vlog_path |-> doc.vlog_path.s,
             lat |-> la.v, lng |-> ln.v]
       ELSE [ok |-> FALSE, user_id |-> 0, timestamp |-> <<>>, sentiment |-> 0,
             vlog_path |-> <<>>, lat |-> 0, lng |-> 0]

\* f"{x:.6f}": whole part and six decimals.
Fixed6(micro) == <<micro \div Micro, micro % Micro>>

\* One <tr> of the page, from a validated item.
HtmlRow(item, pad) ==
    [user |-> item.user_id,
     timestamp |-> FormatTimestampHtml(item.timestamp, pad),
     label |-> ResolveHtml(item.sentiment)[1],
     color |-> ResolveHtml(item.sentiment)[2],
     code |-> item.sentiment,
     lat |-> Fixed6(item.lat), lng |-> Fixed6(item.lng),
     link |-> item.vlog_path]

\* str(doc.get('_id')): the text of the ObjectId.
IdText(id) == NoPad(id)

\* The key dict.get looks up: an int, or a float equal to one; no key for
\* other hashable values.
HashKey(val) ==
    CASE val.t = "int" -> val.n
      [] val.t = "float" /\ val.n % Micro = 0 -> val.n \div Micro
      [] OTHER -> 0

NoRow == [ok |-> FALSE, id |-> <<>>, user |-> NA, timestamp |-> <<>>, code |-> Num(0),
          label |-> "", lat |-> NA, lng |-> NA, vlog_path |-> NA]

\* One data row of the export, from a raw document.  dict.get raises
\* TypeError for an unhashable key and strptime for an argument that is
\* no str; only ValueError is caught per row.
CsvRow(doc, pad) ==
    LET code == Get(doc.sentiment, Num(0))
        ts == Get(doc.timestamp, Str(<<>>))
    IN IF code.t = "array" \/ ts.t # "str" THEN NoRow
       ELSE [ok |-> TRUE,
             id |-> IdText(doc._id),
             user |-> Get(doc.user_id, NA),
             timestamp |-> FormatTimestampCsv(ts.s, pad),
             code |-> code,
             label |-> ResolveCsv(HashKey(code))[1],
             lat |-> Get(doc.lat, NA), lng |-> Get(doc.lng, NA),
             vlog_path |-> Get(doc.vlog_path, NA)]

-----------------------------------------------------------------------------
(* The query: find().sort("timestamp", -1).limit(n)                        *)

RECURSIVE StrLess(_, _)
\* Byte-wise order of two texts.
StrLess(a, b) ==
    IF b = <<>> THEN FALSE
    ELSE IF a = <<>> THEN TRUE
    ELSE IF Ord(a[1]) # Ord(b[1]) THEN Ord(a[1]) < Ord(b[1])
    ELSE StrLess(Tail(a), Tail(b))

\* BSON's order of types: missing, numbers, strings, arrays.
TypeRank(val) ==
    CASE val.t = "absent" -> 1
      [] val.t \in {"int", "float"} -> 2
      [] val.t = "str" -> 3
      [] OTHER -> 4

Numeric(val) == IF val.t = "int" THEN val.n * Micro ELSE val.n

KeyLess(a, b) ==
    \/ TypeRank(a) < TypeRank(b)
    \/ /\ TypeRank(a) = TypeRank(b)
       /\ CASE a.t = "str" -> StrLess(a.s, b.s)
            [] a.t \in {"int", "float"} -> Numeric(a) < Numeric(b)
            [] OTHER -> FALSE

\* The documents no other document sorts after.
Greatest(S) == {d \in S : \A e \in S : ~KeyLess(d.timestamp, e.timestamp)}

RECURSIVE SortedOrders(_)
\* Every descending order of S; documents with equal keys come in any order.
SortedOrders(S) ==
    IF S = {} THEN {<<>>}
    ELSE UNION {{<<d>> \o rest : rest \in SortedOrders(S \ {d})} : d \in Greatest(S)}

\* limit(n); 0 is no limit.
Limit(seq, n) == IF n = 0 \/ Len(seq) <= n THEN seq ELSE SubSeq(seq, 1, n)

PageLimit == 10

-----------------------------------------------------------------------------
(* Bounds of the model                                                     *)

\* Request slots: the requests that can be in flight together.
MaxReq == 2

\* Documents the collection holds at most, with requests interleaved.
MaxDocs == 2

\* Documents the collection holds at most, with one request at a time.
MaxStore == 11

\* Documents of the feed written without a user_id (the older schema).
MaxLegacy == 1

\* Documents the driver hands over per round trip (101 in the driver).
BatchSize == 1

Slots == 1..MaxReq

-----------------------------------------------------------------------------
(* Documents the collection may hold                                       *)

\* The text the client app writes: date and time without a separator.
StoredTimestamp(y, m, d, H, M, S) ==
    Pad4(y) \o <<"-">> \o Pad2(m) \o <<"-">> \o Pad2(d) \o Pad2(H) \o <<":">>
      \o Pad2(M) \o <<":">> \o Pad2(S)

VlogPath == Str(<<"x">>)

WellFormed(id, uid, ts, code) ==
    [_id |-> id, user_id |-> uid, timestamp |-> ts, sentiment |-> code,
     vlog_path |-> VlogPath, lat |-> Flt(25030000), lng |-> Flt(121560000)]

\* Shapes of document found in the collection across schema versions.
DocPool ==
    { WellFormed(1, Num(7), Str(StoredTimestamp(2025, 11, 27, 7, 35, 33)), Num(4)),
      WellFormed(2, Absent, Str(StoredTimestamp(2025, 11, 28, 7, 35, 33)), Num(2)),
      WellFormed(3, Str(<<"8">>), Str(<<"x">>), Num(9)),
      WellFormed(4, Num(7), Num(2025), Num(4)),
      [WellFormed(5, Num(7), Str(StoredTimestamp(2025, 11, 27, 7, 35, 33)), Absent)
         EXCEPT !.lat = Absent, !.vlog_path = Absent],
      WellFormed(6, Num(7), Str(StoredTimestamp(2025, 11, 26, 7, 35, 33)), Arr) }

\* The record invariant: id, timestamp, sentiment, vlog_path, lat and lng
\* are present with their types; user_id is an integer or absent.
SatisfiesRecordInvariant(doc) ==
    /\ doc.timestamp.t = "str"
    /\ doc.sentiment.t = "int"
    /\ doc.vlog_path.t = "str"
    /\ doc.lat.t = "float" /\ doc.lng.t = "float"
    /\ doc.user_id.t \in {"int", "absent"}

\* The timestamp of the n-th document of the feed: days out of order, and
\* the eleventh written in the same second as the first.
FeedTimestamp(n) == StoredTimestamp(2025, 11, ((n * 3) % 10) + 1, 7, 35, 33)

\* The first n documents of the feed; those in legacy carry no user_id.
Feed(n, legacy) ==
    {WellFormed(i, IF i \in legacy THEN Absent ELSE Num(7), Str(FeedTimestamp(i)),
                Num((i % 5) + 1)) : i \in 1..n}

\* What the collection may hold when requests interleave.
SmallStores == {S \in SUBSET DocPool : Cardinality(S) <= MaxDocs}

\* What the collection may hold when it has grown past the page's cap.
FeedStores ==
    {Feed(n, legacy) : <<n, legacy>> \in
        {p \in (0..MaxStore) \X SUBSET (1..MaxStore) :
            p[2] \subseteq 1..p[1] /\ Cardinality(p[2]) <= MaxLegacy}}

-----------------------------------------------------------------------------
(* Responses                                                               *)

NoResp == [status |-> 0, header |-> FALSE, rows |-> <<>>, placeholder |-> FALSE,
           link |-> FALSE]

\* The 503 of both data endpoints when db is None.
Unavailable == [NoResp EXCEPT !.status = 503]

\* The 500 of both data endpoints' except clause.
ServerError == [NoResp EXCEPT !.status = 500]

\* GET /: the health message.
RootResponse == [NoResp EXCEPT !.status = 200]

\* A page that offers the export whatever it lists.
PageResponse_linked(items, pad) ==
    [status |-> 200, header |-> FALSE,
     rows |-> [i \in 1..Len(items) |-> HtmlRow(items[i], pad)],
     placeholder |-> (items = <<>>),
     link |-> TRUE]

\* The page, rendered from data_items after the loop.
PageResponse(items, pad) ==
    [status |-> 200, header |-> FALSE,
     rows |-> [i \in 1..Len(items) |-> HtmlRow(items[i], pad)],
     placeholder |-> (items = <<>>),
     link |-> (items # <<>>)]

\* The export, from the buffer the rows were written to.
CsvResponse(buffer) ==
    [status |-> 200, header |-> buffer.hdr, rows |-> buffer.rows,
     placeholder |-> FALSE, link |-> FALSE]

\* An export that sends what the buffer holds when the store raises.
CsvFailure_truncated(buffer) == CsvResponse(buffer)

\* download_csv's except clause: whatever is in the buffer is dropped.
CsvFailure(buffer) == ServerError

\* A page that answers a failed fetch with the rows it has.
PageFailure_partial(items) ==
    [status |-> 200, header |-> FALSE, rows |-> <<>>, placeholder |-> (items = <<>>),
     link |-> (items # <<>>)]

\* data_download_page's except clause.
PageFailure(items) == ServerError

RECURSIVE PageAppend(_, _)
\* The page's loop body over a batch: validate and append, until one raises.
PageAppend(items, docs) ==
    IF docs = <<>> THEN [ok |-> TRUE, rows |-> items]
    ELSE LET item == MongoDBItem(docs[1]) IN
         IF item.ok THEN PageAppend(Append(items, item), Tail(docs))
         ELSE [ok |-> FALSE, rows |-> items]

RECURSIVE CsvAppend(_, _, _)
\* The export's loop body over a batch: write a row, until one raises.
CsvAppend(rows, docs, pad) ==
    IF docs = <<>> THEN [ok |-> TRUE, rows |-> rows]
    ELSE LET row == CsvRow(docs[1], pad) IN
         IF row.ok THEN CsvAppend(Append(rows, row), Tail(docs), pad)
         ELSE [ok |-> FALSE, rows |-> rows]

-----------------------------------------------------------------------------
(* State                                                                   *)

\* A slot: the handler's position and what it has read so far (at: the
\* lifecycle phase on arrival; sawDb: db was set at the check; snap: the
\* cursor's documents; pos: how many are consumed; fault: the store raised; produced:
\* rows in the buffer when it raised) and its response.
IdleReq == [kind |-> "none", pc |-> "idle", at |-> "none", sawDb |-> FALSE,
            queried |-> FALSE, snap |-> <<>>, pos |-> 0, fault |-> FALSE,
            produced |-> 0, resp |-> NoResp]

EmptyBuffer == [hdr |-> FALSE, rows |-> <<>>]

\* One buffer for the module, shared by every request.
BufferOf_shared(r) == 1

\* data_items and output are locals of the handler: one buffer per request.
BufferOf(r) == r

NoFormat == [done |-> FALSE, html |-> <<>>, csv |-> <<>>]

NoSentiment == [done |-> FALSE, html |-> <<"", "">>, csv |-> <<"", "">>]

\* The lifecycle as a request meets it.
LifePhase ==
    IF shutdownPc = "done" THEN "closed"
    ELSE IF startupPc # "done" THEN "starting"
    ELSE IF db = "None" THEN "failed"
    ELSE "ready"

HarnessIdle ==
    /\ fmtIn = <<>> /\ fmtOut = NoFormat
    /\ sentIn = 0 /\ sentOut = NoSentiment

Init ==
    /\ client = "None" /\ db = "None" /\ closed = FALSE
    /\ startupPc = "init" /\ shutdownPc = "idle"
    /\ store \in SmallStores /\ storeUp = TRUE /\ faulted = FALSE
    /\ padsYear = FALSE
    /\ req = [r \in Slots |-> IdleReq]
    /\ buf = [r \in Slots |-> EmptyBuffer]
    /\ HarnessIdle

handleVars == <<client, db, closed, startupPc, shutdownPc>>

harnessVars == <<fmtIn, fmtOut, sentIn, sentOut>>

-----------------------------------------------------------------------------
(* Lifecycle hooks                                                         *)

\* startup_db_client up to the await: the constructor returns or raises.
StartupConstruct ==
    /\ startupPc = "init"
    /\ \E ok \in BOOLEAN :
         IF ok THEN client' = "Client" /\ startupPc' = "pinging"
         ELSE client' = client /\ startupPc' = "done"
    /\ UNCHANGED <<db, closed, shutdownPc, store, storeUp, faulted, padsYear, req, buf>>
    /\ UNCHANGED harnessVars

\* startup_db_client after the ping: db is set, or the error is printed.
StartupPing ==
    /\ startupPc = "pinging"
    /\ db' = IF storeUp THEN "Db" ELSE db
    /\ startupPc' = "done"
    /\ UNCHANGED <<client, closed, shutdownPc, store, storeUp, faulted, padsYear, req, buf>>
    /\ UNCHANGED harnessVars

\* shutdown_db_client: closes the client when there is one; db stays.
Shutdown ==
    /\ startupPc = "done" /\ shutdownPc = "idle"
    /\ closed' = (client # "None")
    /\ shutdownPc' = "done"
    /\ UNCHANGED <<client, db, startupPc, store, storeUp, faulted, padsYear, req, buf>>
    /\ UNCHANGED harnessVars

-----------------------------------------------------------------------------
(* The network                                                             *)

StoreFails ==
    /\ storeUp /\ storeUp' = FALSE
    /\ UNCHANGED <<store, faulted, padsYear, req, buf>>
    /\ UNCHANGED handleVars /\ UNCHANGED harnessVars

StoreRecovers ==
    /\ ~storeUp /\ storeUp' = TRUE
    /\ UNCHANGED <<store, faulted, padsYear, req, buf>>
    /\ UNCHANGED handleVars /\ UNCHANGED harnessVars

-----------------------------------------------------------------------------
(* Request handlers                                                        *)

Min(a, b) == IF a < b THEN a ELSE b

\* The cap of each endpoint's query: limit(10) for the page, none (0) for
\* the export.
QueryLimit(kind) == IF kind = "page" THEN PageLimit ELSE 0

\* A request takes the first slot that is free: which slot holds it is of
\* no consequence.
Free(r) == req[r].pc = "idle" /\ \A x \in 1..(r - 1) : req[x].pc # "idle"

\* GET /: no await, answered at once.
Root(r) ==
    /\ Free(r)
    /\ req' = [req EXCEPT ![r] = [IdleReq EXCEPT !.kind = "root", !.pc = "done",
                                     !.at = LifePhase,
                                     !.resp = RootResponse]]
    /\ UNCHANGED <<store, storeUp, faulted, padsYear, buf>>
    /\ UNCHANGED handleVars /\ UNCHANGED harnessVars

\* data_download_page and download_csv up to their first await: the check of
\* db, then the buffer (with the header written, for the export) and the
\* cursor, which sends nothing yet.
Begin(r, kind) ==
    /\ Free(r)
    /\ IF db = "None"
       THEN /\ req' = [req EXCEPT ![r] = [IdleReq EXCEPT !.kind = kind, !.pc = "done",
                                             !.at = LifePhase,
                                             !.resp = Unavailable]]
            /\ buf' = buf
       ELSE /\ req' = [req EXCEPT ![r] = [IdleReq EXCEPT !.kind = kind, !.pc = "iter",
                                             !.at = LifePhase,
                                             !.sawDb = TRUE]]
            /\ buf' = [buf EXCEPT ![BufferOf(r)] = [hdr |-> (kind = "csv"), rows |-> <<>>]]
    /\ UNCHANGED <<store, storeUp, faulted, padsYear>>
    /\ UNCHANGED handleVars /\ UNCHANGED harnessVars

\* The store raised inside `async for`: the except clause answers.
StoreError(r) ==
    LET b == buf[BufferOf(r)] IN
    /\ req' = [req EXCEPT ![r].pc = "done", ![r].fault = TRUE,
                          ![r].produced = Len(b.rows),
                          ![r].resp = IF req[r].kind = "csv" THEN CsvFailure(b)
                                      ELSE PageFailure(b.rows)]
    /\ faulted' = TRUE
    /\ buf' = buf

\* A batch arrived: the loop body runs over it without another await; after
\* the last batch the response is built.
Consume(r, order) ==
    LET q == req[r]
        b == buf[BufferOf(r)]
        upto == Min(q.pos + BatchSize, Len(order))
        docs == SubSeq(order, q.pos + 1, upto)
        got == IF q.kind = "csv" THEN CsvAppend(b.rows, docs, padsYear)
               ELSE PageAppend(b.rows, docs)
        nb == [b EXCEPT !.rows = got.rows]
    IN /\ faulted' = faulted
       /\ IF ~got.ok
          THEN /\ req' = [req EXCEPT ![r].pc = "done", ![r].queried = TRUE,
                                     ![r].snap = order,
                                     ![r].resp = IF q.kind = "csv" THEN CsvFailure(nb)
                                                 ELSE PageFailure(nb.rows)]
               /\ buf' = buf
          ELSE IF upto = Len(order)
          THEN /\ req' = [req EXCEPT ![r].pc = "done", ![r].queried = TRUE,
                                     ![r].snap = order, ![r].pos = upto,
                                     ![r].resp = IF q.kind = "csv" THEN CsvResponse(nb)
                                                 ELSE PageResponse(nb.rows, padsYear)]
               /\ buf' = [buf EXCEPT ![BufferOf(r)] = nb]
          ELSE /\ req' = [req EXCEPT ![r].queried = TRUE, ![r].snap = order,
                                     ![r].pos = upto]
               /\ buf' = [buf EXCEPT ![BufferOf(r)] = nb]

\* One await of `async for doc in cursor`: the first sends the query, sorted
\* and capped by the server.  A closed client either refuses the operation
\* or reconnects, depending on the driver's version.
Fetch(r) ==
    /\ req[r].pc = "iter"
    /\ \E reopen \in BOOLEAN :
         IF (closed /\ ~reopen) \/ ~storeUp
         THEN StoreError(r)
         ELSE \E order \in (IF req[r].queried THEN {req[r].snap}
                            ELSE {Limit(o, QueryLimit(req[r].kind)) :
                                     o \in SortedOrders(store)}) :
                Consume(r, order)
    /\ UNCHANGED <<store, storeUp, padsYear>>
    /\ UNCHANGED handleVars /\ UNCHANGED harnessVars

\* The response leaves; the handler's locals are gone.
Respond(r) ==
    /\ req[r].pc = "done"
    /\ req' = [req EXCEPT ![r] = IdleReq]
    /\ buf' = [buf EXCEPT ![BufferOf(r)] = EmptyBuffer]
    /\ UNCHANGED <<store, storeUp, faulted, padsYear>>
    /\ UNCHANGED handleVars /\ UNCHANGED harnessVars

-----------------------------------------------------------------------------
(* Specifications                                                          *)

Next ==
    \/ StartupConstruct
    \/ StartupPing
    \/ Shutdown
    \/ StoreFails
    \/ StoreRecovers
    \/ Root(1)
    \/ \E kind \in {"page", "csv"} : Begin(1, kind)
    \/ Fetch(1)
    \/ Respond(1)

\* The service from its construction: the hooks, the network and the
\* requests of one client, one at a time.
Spec == Init /\ [][Next]_vars

\* The service after a successful startup.
InitServing ==
    /\ client = "Client" /\ db = "Db" /\ closed = FALSE
    /\ startupPc = "done" /\ shutdownPc = "idle"
    /\ store \in SmallStores /\ storeUp = TRUE /\ faulted = FALSE
    /\ padsYear = FALSE
    /\ req = [r \in Slots |-> IdleReq]
    /\ buf = [r \in Slots |-> EmptyBuffer]
    /\ HarnessIdle

NextServing ==
    \/ StoreFails
    \/ StoreRecovers
    \/ \E r \in Slots : Root(r)
    \/ \E r \in Slots : \E kind \in {"page", "csv"} : Begin(r, kind)
    \/ \E r \in Slots : Fetch(r)
    \/ \E r \in Slots : Respond(r)

\* The running service with up to MaxReq requests in flight, their awaits
\* interleaved in any order with each other and with the network.
SpecServing == InitServing /\ [][NextServing]_vars

\* The service after a successful startup, one request at a time, over a
\* feed of up to MaxStore documents.
InitFeed ==
    /\ client = "Client" /\ db = "Db" /\ closed = FALSE
    /\ startupPc = "done" /\ shutdownPc = "idle"
    /\ store \in FeedStores /\ storeUp = TRUE /\ faulted = FALSE
    /\ padsYear = FALSE
    /\ req = [r \in Slots |-> IdleReq]
    /\ buf = [r \in Slots |-> EmptyBuffer]
    /\ HarnessIdle

NextFeed ==
    \/ \E kind \in {"page", "csv"} : Begin(1, kind)
    \/ Fetch(1)
    \/ Respond(1)

SpecFeed == InitFeed /\ [][NextFeed]_vars

-----------------------------------------------------------------------------
(* The formatter and the resolver on their own                             *)

YearTexts == {Pad4(2025), Pad4(2024), Pad4(999), Pad4(0), NoPad(999)}

MonthTexts == {Pad2(11), Pad2(2), NoPad(2), Pad2(13)}

DayTexts == {Pad2(27), Pad2(29), Pad2(31), NoPad(1), <<" ", "5">>, Pad2(0)}

HourTexts == {Pad2(7), NoPad(7), Pad2(23), Pad2(24)}

MinuteTexts == {Pad2(35), NoPad(5), Pad2(60)}

SecondTexts == {Pad2(33), NoPad(3), Pad2(60)}

GapTexts == {<<>>, <<" ">>}

\* Timestamp texts: the stored layout, and texts that depart from it in a
\* field's width or range or by a blank between date and time.
TimestampTexts ==
    {y \o <<"-">> \o m \o <<"-">> \o d \o g \o H \o <<":">> \o M \o <<":">> \o S :
        y \in YearTexts, m \in MonthTexts, d \in DayTexts, g \in GapTexts,
        H \in HourTexts, M \in MinuteTexts, S \in SecondTexts}
      \cup {<<>>, <<"x">>, Pad4(2025)}

SentimentCodes == (0 - 2)..8

\* Both renderers' timestamp step on one text.
FormatTimestamp ==
    /\ ~fmtOut.done
    /\ fmtOut' = [done |-> TRUE, html |-> FormatTimestampHtml(fmtIn, padsYear),
                  csv |-> FormatTimestampCsv(fmtIn, padsYear)]
    /\ UNCHANGED <<fmtIn, sentIn, sentOut, store, storeUp, faulted, padsYear, req, buf>>
    /\ UNCHANGED handleVars

\* Both renderers' sentiment step on one integer code.
ResolveSentiment ==
    /\ \E c \in SentimentCodes :
         /\ sentIn' = c
         /\ sentOut' = [done |-> TRUE, html |-> ResolveHtml(c), csv |-> ResolveCsv(c)]
    /\ UNCHANGED <<fmtIn, fmtOut, store, storeUp, faulted, padsYear, req, buf>>
    /\ UNCHANGED handleVars

InitFormat ==
    /\ client = "None" /\ db = "None" /\ closed = FALSE
    /\ startupPc = "init" /\ shutdownPc = "idle"
    /\ store = {} /\ storeUp = TRUE /\ faulted = FALSE
    /\ padsYear \in BOOLEAN
    /\ req = [r \in Slots |-> IdleReq]
    /\ buf = [r \in Slots |-> EmptyBuffer]
    /\ fmtIn \in TimestampTexts /\ fmtOut = NoFormat
    /\ sentIn = 0 /\ sentOut = NoSentiment

NextFormat == FormatTimestamp \/ ResolveSentiment

SpecFormat == InitFormat /\ [][NextFormat]_vars

-----------------------------------------------------------------------------
(* C7: timestamp formatting                                                *)

\* The stored layout: a 10-character date immediately followed by an
\* 8-character time.
StrictLayout(s) ==
    /\ Len(s) = 18
    /\ \A i \in {1, 2, 3, 4, 6, 7, 9, 10, 11, 12, 14, 15, 17, 18} : s[i] \in Digits
    /\ s[5] = "-" /\ s[8] = "-" /\ s[13] = ":" /\ s[16] = ":"

\* The fields of a text in the stored layout.
StrictFields(s) ==
    [Y |-> ToInt(SubSeq(s, 1, 4)), m |-> ToInt(SubSeq(s, 6, 7)),
     d |-> ToInt(SubSeq(s, 9, 10)), H |-> ToInt(SubSeq(s, 11, 12)),
     M |-> ToInt(SubSeq(s, 14, 15)), S |-> ToInt(SubSeq(s, 17, 18))]

ValidCalendar(f) ==
    /\ f.Y >= 1 /\ f.m >= 1 /\ f.m <= 12
    /\ f.d >= 1 /\ f.d <= DaysInMonth(f.Y, f.m)
    /\ f.H <= 23 /\ f.M <= 59 /\ f.S <= 59

\* The digits of a text in the stored layout, as YYYY/MM/DD HH:MM:SS.
SameDigits(s) ==
    SubSeq(s, 1, 4) \o <<"/">> \o SubSeq(s, 6, 7) \o <<"/">> \o SubSeq(s, 9, 10)
      \o <<" ">> \o SubSeq(s, 11, 18)

\* A field text of one or two digits with its value in lo..hi; a day may
\* also be a blank and a digit.
FieldText(t, lo, hi, blank) ==
    \/ /\ \A i \in 1..Len(t) : t[i] \in Digits
       /\ ToInt(t) >= lo /\ ToInt(t) <= hi
    \/ blank /\ Len(t) = 2 /\ t[1] = " " /\ t[2] \in Digits /\ t[2] # "0"

\* The ways to read s as YYYY-m-dH:M:S with fields one or two characters
\* wide: the widths <<m, d, H, M, S>> that fit.
Layouts(s) ==
    {w \in (1..2) \X (1..2) \X (1..2) \X (1..2) \X (1..2) :
        LET pm == 6
            pd == pm + w[1] + 1
            pH == pd + w[2]
            pM == pH + w[3] + 1
            pS == pM + w[4] + 1
        IN /\ Len(s) = pS + w[5] - 1
           /\ \A i \in 1..4 : s[i] \in Digits
           /\ s[5] = "-" /\ s[pd - 1] = "-" /\ s[pM - 1] = ":" /\ s[pS - 1] = ":"
           /\ FieldText(SubSeq(s, pm, pm + w[1] - 1), 1, 12, FALSE)
           /\ FieldText(SubSeq(s, pd, pd + w[2] - 1), 1, 31, TRUE)
           /\ FieldText(SubSeq(s, pH, pH + w[3] - 1), 0, 23, FALSE)
           /\ FieldText(SubSeq(s, pM, pM + w[4] - 1), 0, 59, FALSE)
           /\ FieldText(SubSeq(s, pS, pS + w[5] - 1), 0, 61, FALSE)}

\* The fields of s read with the widths w.
FieldsOf(s, w) ==
    LET pm == 6
        pd == pm + w[1] + 1
        pH == pd + w[2]
        pM == pH + w[3] + 1
        pS == pM + w[4] + 1
    IN [Y |-> ToInt(SubSeq(s, 1, 4)), m |-> ToInt(SubSeq(s, pm, pm + w[1] - 1)),
        d |-> ToInt(SubSeq(s, pd, pd + w[2] - 1)),
        H |-> ToInt(SubSeq(s, pH, pH + w[3] - 1)),
        M |-> ToInt(SubSeq(s, pM, pM + w[4] - 1)),
        S |-> ToInt(SubSeq(s, pS, pS + w[5] - 1))]

\* The reading the parser takes: of those that fit, the one with the widest
\* day.
Reading(s) == CHOOSE w \in Layouts(s) : \A x \in Layouts(s) : x[2] <= w[2]

\* The text is read as a calendar time.
Accepted(s) == Layouts(s) # {} /\ ValidCalendar(FieldsOf(s, Reading(s)))

\* YYYY/MM/DD HH:MM:SS of the fields, the year as the platform writes it.
Rendering(f, pad) ==
    (IF pad \/ f.Y >= 1000 THEN Pad4(f.Y) ELSE NoPad(f.Y)) \o <<"/">> \o Pad2(f.m)
      \o <<"/">> \o Pad2(f.d) \o <<" ">> \o Pad2(f.H) \o <<":">> \o Pad2(f.M)
      \o <<":">> \o Pad2(f.S)

\* C7 as stated: a text in the stored layout that denotes a valid calendar
\* time is rendered as YYYY/MM/DD HH:MM:SS with the same digits by both
\* renderers; every other text comes out with the format-error marker
\* appended on the page and unmodified in the export.
C7_AsStated ==
    fmtOut.done =>
        IF StrictLayout(fmtIn) /\ ValidCalendar(StrictFields(fmtIn))
        THEN fmtOut.html = SameDigits(fmtIn) /\ fmtOut.csv = SameDigits(fmtIn)
        ELSE fmtOut.html = fmtIn \o FormatErrorMarker /\ fmtOut.csv = fmtIn

\* C7, amended: formatting a timestamp text never raises in either renderer.
\* A text that reads as YYYY-m-dH:M:S with month, day, hour, minute and
\* second one or two characters wide (the widest day that fits is taken) and
\* denotes a valid calendar time is rendered by both renderers as
\* YYYY/MM/DD HH:MM:SS with every field zero-padded (a year below 1000 as
\* the platform's strftime writes it); in particular a text in the stored
\* 10+8 layout with a year of 1000 or later keeps its digits.  Every other
\* text comes out with the format-error marker appended on the page and
\* unmodified in the export.
C7_Formatter ==
    fmtOut.done =>
        /\ IF Accepted(fmtIn)
           THEN /\ fmtOut.html = Rendering(FieldsOf(fmtIn, Reading(fmtIn)), padsYear)
                /\ fmtOut.csv = fmtOut.html
           ELSE /\ fmtOut.html = fmtIn \o FormatErrorMarker
                /\ fmtOut.csv = fmtIn
        /\ (StrictLayout(fmtIn) /\ ValidCalendar(StrictFields(fmtIn))
              /\ StrictFields(fmtIn).Y >= 1000)
             => fmtOut.html = SameDigits(fmtIn) /\ fmtOut.csv = SameDigits(fmtIn)

\* A text outside the stored layout that the parser reads all the same has
\* been formatted.
C7_Witness ==
    /\ fmtOut.done
    /\ ~StrictLayout(fmtIn)
    /\ Accepted(fmtIn)
    /\ fmtOut.csv # fmtIn

-----------------------------------------------------------------------------
(* C8: sentiment resolution                                                *)

\* C8: for every integer code the lookup returns a pair: for a code in 1..5
\* the lexicon's entry, the same in both renderers; for any other code the
\* renderer's "Unknown" label with a neutral hint (grey on the page, none in
\* the export).
C8_Resolver ==
    sentOut.done =>
        IF sentIn \in 1..5
        THEN /\ sentOut.html = SENTIMENT_MAPPING[sentIn]
             /\ sentOut.csv = sentOut.html
        ELSE /\ sentOut.html = <<"WeiZhi/Unknown", "text-gray-400">>
             /\ sentOut.csv = <<"Unknown", "">>

\* A code outside the lexicon has been resolved.
C8_Witness == sentOut.done /\ sentIn \notin 1..5 /\ sentOut.csv[1] = "Unknown"

-----------------------------------------------------------------------------
(* Claims about the requests                                               *)

Done(r) == req[r].pc = "done"

IsData(r) == req[r].kind \in {"page", "csv"}

\* Every document the request fetched passes its renderer's loop body.
AllAccepted(q) ==
    \A i \in 1..Len(q.snap) :
        IF q.kind = "page" THEN MongoDBItem(q.snap[i]).ok
        ELSE CsvRow(q.snap[i], padsYear).ok

\* C2 as stated: a data request that arrives before the startup hook has
\* finished, after the startup connection failed, or after the shutdown hook
\* has closed the client is answered 503.
C2_AsStated ==
    \A r \in Slots :
        (Done(r) /\ IsData(r) /\ req[r].at \in {"starting", "failed", "closed"})
          => req[r].resp.status = 503

\* C3: a request whose query or cursor iteration raises is answered 500
\* with no rows, the step that answers it leaves client, db and the client's
\* state alone, and a request issued after such a failure is served as usual:
\* 200 with one row per fetched document exactly when its renderer accepts
\* every document fetched, 500 otherwise.  (With one request at a time, a
\* request that has not failed while faulted holds was issued after the
\* failure.)
C3_Recovery ==
    /\ [](\A r \in Slots :
            Done(r) =>
              /\ req[r].fault => (req[r].resp.status = 500 /\ req[r].resp.rows = <<>>)
              /\ (faulted /\ req[r].sawDb /\ ~req[r].fault) =>
                   /\ req[r].resp.status = IF AllAccepted(req[r]) THEN 200 ELSE 500
                   /\ req[r].resp.status = 200 =>
                        Len(req[r].resp.rows) = Len(req[r].snap))
    /\ [][\A r \in Slots :
            (req[r].pc = "iter" /\ req'[r].fault) =>
              (client' = client /\ db' = db /\ closed' = closed)]_vars

\* After one request failed on a store error, a later one got its rows.
C3_Witness ==
    \E r \in Slots :
        /\ faulted /\ Done(r) /\ IsData(r) /\ ~req[r].fault
        /\ req[r].resp.status = 200 /\ Len(req[r].resp.rows) >= 1

\* The document has every required field but user_id valid.
ValidButForUserId(doc) == MongoDBItem([doc EXCEPT !.user_id = Num(0)]).ok

\* C4 as stated: when the documents fetched for the page are valid except
\* that some lack user_id, the page is a 200 with a row for every document,
\* the rows of those without user_id showing the "anonymous" sentinel.
C4_AsStated ==
    \A r \in Slots :
        (/\ Done(r) /\ req[r].kind = "page" /\ req[r].queried /\ ~req[r].fault
         /\ \A i \in 1..Len(req[r].snap) : ValidButForUserId(req[r].snap[i]))
          => /\ req[r].resp.status = 200
             /\ Len(req[r].resp.rows) = Len(req[r].snap)
             /\ \A i \in 1..Len(req[r].snap) :
                  req[r].snap[i].user_id.t = "absent"
                    => req[r].resp.rows[i].user = "anonymous"

\* C5 as stated: with the store reachable the export is a 200 with one data
\* row per document, whatever fields are missing or ill-typed, the missing
\* ones replaced by their defaults.
C5_AsStated ==
    \A r \in Slots :
        (Done(r) /\ req[r].kind = "csv" /\ req[r].queried /\ ~req[r].fault)
          => /\ req[r].resp.status = 200
             /\ Len(req[r].resp.rows) = Len(req[r].snap)
             /\ \A i \in 1..Len(req[r].snap) :
                  /\ req[r].snap[i].user_id.t = "absent" => req[r].resp.rows[i].user = NA
                  /\ req[r].snap[i].lat.t = "absent" => req[r].resp.rows[i].lat = NA
                  /\ req[r].snap[i].sentiment.t = "absent" =>
                       (req[r].resp.rows[i].code = Num(0)
                          /\ req[r].resp.rows[i].label = "Unknown")

C9_Placeholder ==
    \A r \in Slots :
        (Done(r) /\ req[r].kind = "page" /\ req[r].resp.status = 200)
          => /\ req[r].queried
             /\ req[r].resp.placeholder <=> (Len(req[r].snap) = 0)
             /\ req[r].resp.link <=> (Len(req[r].snap) > 0)
             /\ Len(req[r].resp.rows) = Len(req[r].snap)

\* A page over an empty collection has been rendered.
C9_Witness ==
    \E r \in Slots :
        /\ Done(r) /\ req[r].kind = "page" /\ req[r].resp.status = 200
        /\ req[r].snap = <<>> /\ req[r].resp.placeholder /\ ~req[r].resp.link

\* What the request answers when it runs alone: from the handle it met, the
\* documents it fetched and whether the store raised.
Alone(q) ==
    IF q.kind = "root" THEN [NoResp EXCEPT !.status = 200]
    ELSE IF ~q.sawDb THEN [NoResp EXCEPT !.status = 503]
    ELSE IF q.fault \/ ~AllAccepted(q) THEN [NoResp EXCEPT !.status = 500]
    ELSE IF q.kind = "page"
    THEN [status |-> 200, header |-> FALSE,
          rows |-> [i \in 1..Len(q.snap) |-> HtmlRow(MongoDBItem(q.snap[i]), padsYear)],
          placeholder |-> (Len(q.snap) = 0), link |-> (Len(q.snap) > 0)]
    ELSE [status |-> 200, header |-> TRUE,
          rows |-> [i \in 1..Len(q.snap) |-> CsvRow(q.snap[i], padsYear)],
          placeholder |-> FALSE, link |-> FALSE]

\* C10: in any interleaving of requests, a request's response is the one it
\* gives alone on the same store and handle, and no step of a handler
\* changes client, db, the client's state or the store's contents.
C10_Isolation ==
    /\ [](\A r \in Slots :
            Done(r) =>
              /\ req[r].resp = Alone(req[r])
              /\ req[r].queried =>
                   req[r].snap \in {Limit(o, QueryLimit(req[r].kind)) :
                                       o \in SortedOrders(store)})
    /\ [][/\ client' = client /\ db' = db /\ closed' = closed
          /\ store' = store]_vars

\* One request has its rows while another is between two batches.
C10_Witness ==
    \E r1 \in Slots : \E r2 \in Slots \ {r1} :
        /\ Done(r1) /\ IsData(r1) /\ req[r1].resp.status = 200
        /\ Len(req[r1].resp.rows) >= 1
        /\ req[r2].pc = "iter" /\ req[r2].pos >= 1

-----------------------------------------------------------------------------
(* C1: the page's cap and the export's length                              *)

\* The documents are in descending order of their timestamp.
Descending(seq) ==
    \A i \in 1..Len(seq) : \A j \in i..Len(seq) :
        ~KeyLess(seq[i].timestamp, seq[j].timestamp)

\* No document left out sorts after one that is in.
Topmost(seq, S) ==
    \A d \in S \ {seq[i] : i \in 1..Len(seq)} : \A i \in 1..Len(seq) :
        ~KeyLess(seq[i].timestamp, d.timestamp)

\* C1 as stated: over N records that satisfy the record invariant, the page
\* has min(N, 10) rows, the records with the greatest timestamp texts in
\* descending order, and the export has its header and N rows in the same
\* order.
C1_AsStated ==
    \A r \in Slots :
        (/\ Done(r) /\ IsData(r) /\ req[r].sawDb /\ ~req[r].fault
         /\ \A d \in store : SatisfiesRecordInvariant(d))
          => /\ req[r].resp.status = 200
             /\ Len(req[r].resp.rows) =
                  IF req[r].kind = "page" THEN Min(Cardinality(store), PageLimit)
                  ELSE Cardinality(store)
             /\ req[r].kind = "csv" => req[r].resp.header
             /\ Len(req[r].snap) = Len(req[r].resp.rows)
             /\ Descending(req[r].snap) /\ Topmost(req[r].snap, store)

====
